---- MODULE Spec2Model ----
(***************************************************************************)
(* Model of GoogleHelper.py: the Google contacts adapter (class Google)    *)
(* with its label filter, label mapping, contact cache and the paginated   *)
(* getContacts walk with its one-shot sync token recovery.                 *)
(*                                                                         *)
(* Four specifications share the variables:                                *)
(*   Spec        the contact operations (getContacts, getContact,          *)
(*               createContact, updateContact, removeContactFromList);     *)
(*   SpecLabels  the label operations (getLabelId, createLabel,            *)
(*               deleteLabel, getLabelName);                               *)
(*   SpecFilter  the pure function __filterContactsByLabel on bounded      *)
(*               inputs;                                                   *)
(*   SpecForm    the payload builder GoogleContactUploadForm on bounded    *)
(*               inputs.                                                   *)
(* Label operations and contact operations touch disjoint fields, except   *)
(* for the request counter apiRequests.                                    *)
(***************************************************************************)
EXTENDS Integers, Sequences, FiniteSets, TLC

----------------------------------------------------------------------------
(* Bounds of the model *)

\* longest contact list given to the label filter in SpecFilter
MaxLen == 2
\* most pages the remote serves in one walk
MaxPages == 2
\* createContact / getContact append only while the cache is shorter
MaxCache == 2
\* operations start only while the request counter is below this
MaxRequests == 3

----------------------------------------------------------------------------
(* Data *)

\* an absent token / absent field: falsy in the source
NoToken == ""

Groups == {"contactGroups/a", "contactGroups/b"}

Ids == {"people/1", "people/2"}

\* a contact record: resourceName, the contactGroupId of each membership
\* (in list order) and an etag that tells two versions of a record apart
Person(id, ms, tag) == [resourceName |-> id, memberships |-> ms, etag |-> tag]

\* the remote contacts of the contact operations: two versions of one
\* record, and a record with another label
People ==
  { Person("people/1", <<"contactGroups/a">>, "v1"),
    Person("people/1", <<"contactGroups/a">>, "v2"),
    Person("people/2", <<"contactGroups/b">>, "v1") }

\* membership lists given to the label filter in SpecFilter
MembershipLists ==
  { <<>>, <<"contactGroups/a">>, <<"contactGroups/b">>,
    <<"contactGroups/a", "contactGroups/b">>,
    <<"contactGroups/b", "contactGroups/a">> }

FilterPeople == { Person(id, ms, "v1") : id \in Ids, ms \in MembershipLists }

SeqsUpTo(S, n) == UNION { [1..k -> S] : k \in 0..n }

Range(s) == { s[i] : i \in DOMAIN s }

\* labelFilter configurations: include and exclude lists, read only with
\* `in` and truthiness, so modelled as sets
AllFilters == [include : SUBSET Groups, exclude : SUBSET Groups]

Filters ==
  { [include |-> {}, exclude |-> {}],
    [include |-> {"contactGroups/a"}, exclude |-> {"contactGroups/b"}] }

----------------------------------------------------------------------------
(* The label filter *)

\* a mutation of filterContactsByLabel: the include branch forgets the
\* exclude list
filterContactsByLabelNoExclude(contactList, lf) ==
  IF lf.include # {}
    THEN SelectSeq(contactList, LAMBDA contact :
           \E i \in DOMAIN contact.memberships :
              contact.memberships[i] \in lf.include)
    ELSE IF lf.exclude # {}
      THEN SelectSeq(contactList, LAMBDA contact :
             \A i \in DOMAIN contact.memberships :
                contact.memberships[i] \notin lf.exclude)
      ELSE contactList

filterContactsByLabel(contactList, lf) ==
  IF lf.include # {}
    THEN SelectSeq(contactList, LAMBDA contact :
           /\ \E i \in DOMAIN contact.memberships :
                 contact.memberships[i] \in lf.include
           /\ \A i \in DOMAIN contact.memberships :
                 contact.memberships[i] \notin lf.exclude)
    ELSE IF lf.exclude # {}
      THEN SelectSeq(contactList, LAMBDA contact :
             \A i \in DOMAIN contact.memberships :
                contact.memberships[i] \notin lf.exclude)
      ELSE contactList

----------------------------------------------------------------------------
(* State *)

VARIABLES
  labelFilter,          \* self.labelFilter
  database,             \* whether self.database is configured
  storedSyncToken,      \* the token last handed to database.updateGoogleNextSyncToken
  apiRequests,          \* self.apiRequests
  labelMapping,         \* self.labelMapping: name -> id
  reverseLabelMapping,  \* self.reverseLabelMapping: id -> name
  contacts,             \* self.contacts, the cache
  dataAlreadyFetched,   \* self.dataAlreadyFetched
  createdContacts,      \* keys of self.createdContacts
  pc,                   \* "idle", or "fetch" while getContacts is in __fetchContacts
  walk,                 \* 1 for the first __fetchContacts call of getContacts, 2 for the restart
  parameters,           \* the parameters dict of the running getContacts call
  fetched,              \* the local list `contacts` of __fetchContacts
  requests,             \* the list requests issued by the latest getContacts call
  pages,                \* the pages received by the current walk
  handed,               \* the tokens the latest getContacts call handed to the database
  lastOp,               \* the latest step: operation, outcome, remote calls issued
  contactList,          \* SpecFilter: the input of the label filter
  filtered,             \* SpecFilter: its output
  formInput,            \* SpecForm: the arguments of GoogleContactUploadForm
  formData              \* SpecForm: what the constructor produced

vars == << labelFilter, database, storedSyncToken, apiRequests, labelMapping,
           reverseLabelMapping, contacts, dataAlreadyFetched, createdContacts,
           pc, walk, parameters, fetched, requests, pages, handed, lastOp,
           contactList, filtered, formInput, formData >>

adapterVars == << labelFilter, database, storedSyncToken, labelMapping,
                  reverseLabelMapping, contacts, dataAlreadyFetched,
                  createdContacts >>

callVars == << pc, walk, parameters, fetched, requests, pages, handed >>

\* the variables of the pure-function specifications
filterVars == << contactList, filtered, formInput, formData >>

\* the outcome of a step as the caller sees it
\*   status "value": returned ret (contacts) or id (a label id)
\*   status "none": returned None;  status "raised": raised err
\*   status "running": getContacts has not returned yet
\*   calls: the remote calls this step issued
Outcome(op, status, err, ret, id, calls) ==
  [op |-> op, status |-> status, err |-> err, ret |-> ret, id |-> id, calls |-> calls]

NoParameters == [syncToken |-> NoToken, pageToken |-> NoToken]

----------------------------------------------------------------------------
(* Construction *)

LabelNames == {"Friends", "Work"}

DefaultGroupId == "contactGroups/myContacts"

EmptyMapping == [n \in {} |-> ""]

Put(m, k, v) == [n \in DOMAIN m \cup {k} |-> IF n = k THEN v ELSE m[n]]

Group(name, id, type) == [name |-> name, resourceName |-> id, groupType |-> type]

\* the answers of contactGroups().list() at construction
RemoteGroupLists ==
  { <<>>,
    << Group("Friends", "contactGroups/a", "USER_CONTACT_GROUP"),
       Group("chatBuddies", "contactGroups/chatBuddies", "SYSTEM_CONTACT_GROUP"),
       Group("myContacts", "contactGroups/myContacts", "SYSTEM_CONTACT_GROUP") >> }

RECURSIVE getLabelMapping(_)
getLabelMapping(groups) ==
  IF groups = <<>> THEN EmptyMapping
  ELSE LET group == groups[Len(groups)]
           before == getLabelMapping(SubSeq(groups, 1, Len(groups) - 1))
       IN  IF \/ group.groupType = "USER_CONTACT_GROUP"
              \/ group.name \in {"myContacts", "starred"}
             THEN Put(before, group.name, group.resourceName)
             ELSE before

\* {id: name for name, id in labelMapping.items()}; the mappings built at
\* construction here are one-to-one
ReverseOf(m) ==
  [g \in {m[n] : n \in DOMAIN m} |-> CHOOSE n \in DOMAIN m : m[n] = g]

\* __init__: one list-groups call, empty cache, nothing fetched
Constructed(filters, groupLists, databases) ==
  /\ labelFilter \in filters
  /\ database \in databases
  /\ storedSyncToken = NoToken
  /\ apiRequests = 1
  /\ labelMapping \in {getLabelMapping(gs) : gs \in groupLists}
  /\ reverseLabelMapping = ReverseOf(labelMapping)
  /\ contacts = <<>>
  /\ dataAlreadyFetched = FALSE
  /\ createdContacts = {}
  /\ pc = "idle"
  /\ walk = 1
  /\ parameters = NoParameters
  /\ fetched = <<>>
  /\ requests = <<>>
  /\ pages = <<>>
  /\ handed = <<>>
  /\ lastOp = Outcome("init", "none", "", <<>>, "", 1)
  /\ filtered = <<>>
  /\ formData = [status |-> "none", err |-> "", data |-> EmptyMapping]

\* a dict with no key
EmptyDict == EmptyMapping

\* GoogleContactUploadForm() with every argument at its default
NoArguments ==
  [firstName |-> "", lastName |-> "", middleName |-> "",
   birthdate |-> EmptyDict, phoneNumbers |-> <<>>, career |-> EmptyDict,
   emailAdresses |-> <<>>, labelIds |-> <<>>, addresses |-> <<>>]

----------------------------------------------------------------------------
(* SpecFilter: __filterContactsByLabel on bounded inputs *)

InitFilter ==
  /\ Constructed(AllFilters, {<<>>}, {FALSE})
  /\ contactList \in SeqsUpTo(FilterPeople, MaxLen)
  /\ formInput = NoArguments

ApplyFilter ==
  /\ lastOp.op = "init"
  /\ filtered' = filterContactsByLabel(contactList, labelFilter)
  /\ lastOp' = Outcome("filterContactsByLabel", "value", "", <<>>, "", 0)
  /\ UNCHANGED << adapterVars, apiRequests, callVars, contactList,
                  formInput, formData >>

NextFilter == ApplyFilter

SpecFilter == InitFilter /\ [][NextFilter]_vars

\* the claimed predicate: a contact passes iff (I is empty or it has a
\* membership in I) and it has no membership in E
Passes(contact, lf) ==
  /\ lf.include = {} \/ Range(contact.memberships) \cap lf.include # {}
  /\ Range(contact.memberships) \cap lf.exclude = {}

\* out is the list of the elements of in that satisfy Passes, in input order:
\* there is a strictly increasing choice of positions of in, namely all the
\* passing ones, that out reads off
PassingPositions(in, lf) == { i \in DOMAIN in : Passes(in[i], lf) }

IsSelectionOf(out, in, lf) ==
  LET pos == PassingPositions(in, lf)
  IN  /\ Len(out) = Cardinality(pos)
      /\ \A i \in pos :
            out[Cardinality({j \in pos : j <= i})] = in[i]

\* C1: the label filter returns exactly the input contacts, in input order,
\* that have a membership in the include set (when it is non-empty) and none
\* in the exclude set; with both sets empty the output is the input.
C1_FilterExact ==
  lastOp.op = "filterContactsByLabel" =>
    /\ IsSelectionOf(filtered, contactList, labelFilter)
    /\ (labelFilter.include = {} /\ labelFilter.exclude = {}) => filtered = contactList

\* a filter with both sets non-empty kept one contact and dropped another
C1_Witness ==
  /\ lastOp.op = "filterContactsByLabel"
  /\ labelFilter.include # {} /\ labelFilter.exclude # {}
  /\ Len(contactList) = MaxLen
  /\ 0 < Len(filtered) /\ Len(filtered) < Len(contactList)
  /\ \E i \in DOMAIN contactList :
        /\ Range(contactList[i].memberships) \cap labelFilter.include # {}
        /\ Range(contactList[i].memberships) \cap labelFilter.exclude # {}

----------------------------------------------------------------------------
(* SpecLabels: the label operations *)

\* the answers of contactGroups().create(): an HttpError, or a response
\* with a resourceName or (NoToken) without one
CreateResponses ==
  { [ok |-> FALSE, resourceName |-> NoToken] } \cup
  { [ok |-> TRUE, resourceName |-> g] : g \in Groups \cup {NoToken} }

\* a mutation of createLabel: it issues the create call without looking the
\* name up first
createLabelNoLookup(mapping, labelName, response) ==
  IF ~response.ok
    THEN [raised |-> TRUE, id |-> "", mapping |-> mapping, calls |-> 1, counted |-> 0]
    ELSE LET groupId == IF response.resourceName # NoToken
                          THEN response.resourceName ELSE DefaultGroupId
         IN  [raised |-> FALSE, id |-> groupId,
              mapping |-> Put(mapping, labelName, groupId),
              calls |-> 1, counted |-> 1]

\* createLabel as a function of the mapping and the remote's answer: whether
\* it raised, the id returned, the mapping afterwards, the remote calls
\* issued and the increments of apiRequests (the increment follows
\* execute(), so a failed call is not counted)
createLabel(mapping, labelName, response) ==
  IF labelName \in DOMAIN mapping
    THEN [raised |-> FALSE, id |-> mapping[labelName], mapping |-> mapping,
          calls |-> 0, counted |-> 0]
    ELSE IF ~response.ok
      THEN [raised |-> TRUE, id |-> "", mapping |-> mapping, calls |-> 1, counted |-> 0]
      ELSE LET groupId == IF response.resourceName # NoToken
                            THEN response.resourceName ELSE DefaultGroupId
           IN  [raised |-> FALSE, id |-> groupId,
                mapping |-> Put(mapping, labelName, groupId),
                calls |-> 1, counted |-> 1]

\* dict.get(key, default)
Get(m, k, default) == IF k \in DOMAIN m THEN m[k] ELSE default

CreateLabel(labelName, response) ==
  LET r == createLabel(labelMapping, labelName, response)
  IN  /\ pc = "idle"
      /\ apiRequests < MaxRequests
      /\ labelMapping' = r.mapping
      /\ apiRequests' = apiRequests + r.counted
      /\ lastOp' = IF r.raised
                     THEN Outcome("createLabel", "raised", "HttpError", <<>>, "", r.calls)
                     ELSE Outcome("createLabel", "value", "", <<>>, r.id, r.calls)
      /\ UNCHANGED << labelFilter, database, storedSyncToken, reverseLabelMapping,
                      contacts, dataAlreadyFetched, createdContacts,
                      callVars, filterVars >>

\* getLabelId: with createOnError the default argument createLabel(name) is
\* evaluated before the lookup
GetLabelId(name, createOnError, response) ==
  /\ pc = "idle"
  /\ apiRequests < MaxRequests
  /\ IF createOnError
       THEN LET r == createLabel(labelMapping, name, response)
            IN  /\ labelMapping' = r.mapping
                /\ apiRequests' = apiRequests + r.counted
                /\ lastOp' = IF r.raised
                     THEN Outcome("getLabelId", "raised", "HttpError", <<>>, "", r.calls)
                     ELSE Outcome("getLabelId", "value", "", <<>>,
                                  Get(r.mapping, name, r.id), r.calls)
       ELSE /\ lastOp' = Outcome("getLabelId", "value", "", <<>>,
                                 Get(labelMapping, name, ""), 0)
            /\ UNCHANGED << labelMapping, apiRequests >>
  /\ UNCHANGED << labelFilter, database, storedSyncToken, reverseLabelMapping,
                  contacts, dataAlreadyFetched, createdContacts,
                  callVars, filterVars >>

\* deleteLabel: one delete call; a failure is logged and not raised
DeleteLabel(groupId, ok) ==
  /\ pc = "idle"
  /\ apiRequests < MaxRequests
  /\ apiRequests' = IF ok THEN apiRequests + 1 ELSE apiRequests
  /\ lastOp' = Outcome("deleteLabel", "none", "", <<>>, groupId, 1)
  /\ UNCHANGED << adapterVars, callVars, filterVars >>

\* labelString.split("/")[1] on the label ids of the model
LocalPart(labelString) ==
  CASE labelString = "contactGroups/a" -> "a"
    [] labelString = "contactGroups/b" -> "b"
    [] labelString = "contactGroups/myContacts" -> "myContacts"
    [] labelString = "contactGroups/chatBuddies" -> "chatBuddies"

\* getLabelName as a function of the reverse mapping
getLabelName(reverse, labelString) ==
  Get(reverse, labelString, LocalPart(labelString))

GetLabelName(labelString) ==
  /\ pc = "idle"
  /\ apiRequests < MaxRequests
  /\ lastOp' = Outcome("getLabelName", "value", "", <<>>,
                       getLabelName(reverseLabelMapping, labelString), 0)
  /\ UNCHANGED << adapterVars, apiRequests, callVars, filterVars >>

InitLabels ==
  /\ Constructed({[include |-> {}, exclude |-> {}]}, RemoteGroupLists, {FALSE})
  /\ contactList = <<>>
  /\ formInput = NoArguments

NextLabels ==
  \/ \E name \in LabelNames, response \in CreateResponses :
        CreateLabel(name, response)
  \/ \E name \in LabelNames, createOnError \in BOOLEAN, response \in CreateResponses :
        GetLabelId(name, createOnError, response)
  \/ \E groupId \in Groups, ok \in BOOLEAN : DeleteLabel(groupId, ok)
  \/ \E labelString \in Groups \cup {DefaultGroupId} : GetLabelName(labelString)

SpecLabels == InitLabels /\ [][NextLabels]_vars

\* C7: getLabelId on a name that is not in the mapping returns "" with no
\* remote call and the mapping unchanged when createOnError is false, and
\* with createOnError true issues exactly one create call and, when that
\* call succeeds, returns the new id and leaves the name mapped to it; on a
\* name already in the mapping it returns the mapped id with no remote call
\* for either flag.
C7_GetLabelId ==
  [][ \A name \in LabelNames, createOnError \in BOOLEAN, response \in CreateResponses :
        GetLabelId(name, createOnError, response) =>
          IF name \in DOMAIN labelMapping
            THEN /\ lastOp'.status = "value"
                 /\ lastOp'.id = labelMapping[name]
                 /\ lastOp'.calls = 0
                 /\ apiRequests' = apiRequests
                 /\ labelMapping' = labelMapping
            ELSE IF ~createOnError
              THEN /\ lastOp'.status = "value"
                   /\ lastOp'.id = ""
                   /\ lastOp'.calls = 0
                   /\ labelMapping' = labelMapping
              ELSE /\ lastOp'.calls = 1
                   /\ response.ok =>
                        /\ lastOp'.status = "value"
                        /\ lastOp'.id =
                             (IF response.resourceName # NoToken
                                THEN response.resourceName ELSE DefaultGroupId)
                        /\ name \in DOMAIN labelMapping'
                        /\ labelMapping'[name] = lastOp'.id
                        /\ \A n \in DOMAIN labelMapping :
                              labelMapping'[n] = labelMapping[n] ]_vars

\* getLabelId created a label, and a later getLabelId found a name without
\* a remote call
C7_Witness ==
  /\ lastOp.op = "getLabelId"
  /\ lastOp.status = "value"
  /\ lastOp.calls = 0
  /\ lastOp.id \in Groups
  /\ LabelNames \subseteq DOMAIN labelMapping
  /\ apiRequests > 1

----------------------------------------------------------------------------
(* Spec: the contact operations *)

PageTokens == {"t1", "t2"}

\* the syncToken a caller passes to getContacts (NoToken: none passed)
CallerSyncTokens == {NoToken, "s0"}

\* the nextSyncToken of a last page (NoToken: the page carries none)
NextSyncTokens == {NoToken, "s1", "s2"}

\* the `connections` of one page
PageContents == {<<>>} \cup { <<p>> : p \in People }

\* the answers of people().connections().list(): a page with a truthy
\* nextPageToken, a last page, an HttpError whose reason holds 'Sync token',
\* an HttpError with another reason
ListResponses ==
  { [kind |-> "page", connections |-> cs, nextPageToken |-> t, nextSyncToken |-> NoToken] :
      cs \in PageContents, t \in PageTokens } \cup
  { [kind |-> "page", connections |-> cs, nextPageToken |-> NoToken, nextSyncToken |-> t] :
      cs \in PageContents, t \in NextSyncTokens } \cup
  { [kind |-> k, connections |-> <<>>, nextPageToken |-> NoToken, nextSyncToken |-> NoToken] :
      k \in {"syncTokenError", "httpError"} }

\* the answers of people().get / createContact / updateContact: an
\* HttpError, or the record
ContactResponses ==
  { [ok |-> FALSE, result |-> p] : p \in {CHOOSE q \in People : TRUE} } \cup
  { [ok |-> TRUE, result |-> p] : p \in People }

Request(w, params) ==
  [walk |-> w, syncToken |-> params.syncToken, pageToken |-> params.pageToken]

RECURSIVE Concat(_)
Concat(ps) ==
  IF ps = <<>> THEN <<>>
  ELSE Concat(SubSeq(ps, 1, Len(ps) - 1)) \o ps[Len(ps)].connections

\* list.remove(x): drops the first element equal to x
RemoveFirst(s, x) ==
  LET i == CHOOSE k \in DOMAIN s : s[k] = x /\ \A j \in 1..(k - 1) : s[j] # x
  IN  SubSeq(s, 1, i - 1) \o SubSeq(s, i + 1, Len(s))

\* a mutation of UseCache: refetchData is ignored
UseCacheIgnoringRefetch(alreadyFetched, refetchData) == alreadyFetched

\* line 146: the cached list is returned when data was fetched and no
\* refetch is asked for
UseCache(alreadyFetched, refetchData) == alreadyFetched /\ ~refetchData

\* a mutation of Accumulate: each page replaces the pages before it
AccumulateLastPage(acc, response) == response.connections

\* line 178: contacts += result.get('connections', [])
Accumulate(acc, response) == acc \o response.connections

\* line 180: parameters['pageToken'] = nextPageToken
WithPageToken(params, nextPageToken) == [params EXCEPT !.pageToken = nextPageToken]

\* a mutation of PopSyncToken: the token stays in the parameters
PopNothing(params) == params

\* line 161: parameters.pop('syncToken'); the dict is the one
\* __fetchContacts wrote pageToken into
PopSyncToken(params) == [params EXCEPT !.syncToken = NoToken]

\* no getContacts call is running or was the latest operation: its locals
\* and the record of its requests are gone
NoCall ==
  /\ pc' = "idle"
  /\ walk' = 1
  /\ parameters' = NoParameters
  /\ fetched' = <<>>
  /\ requests' = <<>>
  /\ pages' = <<>>
  /\ handed' = <<>>

\* a mutation of TokensHanded: the token is handed over whether or not a
\* database is configured
TokensHandedWithoutDatabase(response, db) ==
  IF response.nextSyncToken # NoToken THEN <<response.nextSyncToken>> ELSE <<>>

\* lines 185-187: the calls of database.updateGoogleNextSyncToken after the
\* loop, as the list of their arguments
TokensHanded(response, db) ==
  IF response.nextSyncToken # NoToken /\ db THEN <<response.nextSyncToken>> ELSE <<>>

\* a mutation of Recovers: every HttpError of the first walk is retried
RecoversFromAnyError(w, kind) == w = 1

\* lines 154-157: the try block holds the first __fetchContacts call only,
\* and its handler retries when the reason holds 'Sync token'
Recovers(w, kind) == w = 1 /\ kind = "syncTokenError"

\* lines 100-103: the cached records with that resourceName, in cache order
CacheLookup(cache, id) ==
  IF cache # <<>> THEN SelectSeq(cache, LAMBDA c : c.resourceName = id) ELSE <<>>

\* a mutation of FilterResult: the result is not filtered
FilterResultUnfiltered(result, lf) == <<result>>

\* line 117: the label filter on the one-element list of the result
FilterResult(result, lf) == filterContactsByLabel(<<result>>, lf)

\* a mutation of MarkCreated: the id is not recorded
MarkNothing(created, result) == created

\* lines 262-264: createdContacts[id] = True
MarkCreated(created, result) == created \cup {result.resourceName}

\* a mutation of CacheAppend: the new record replaces the cache
CacheAppendReplacing(cache, contact) == <<contact>>

\* lines 265 and 118: contacts.append
CacheAppend(cache, contact) == Append(cache, contact)

\* a mutation of CacheAfterUpdate: the cached records with the result's
\* resourceName are replaced by the result
CacheSavingUpdate(cache, result) ==
  [i \in DOMAIN cache |->
     IF cache[i].resourceName = result.resourceName THEN result ELSE cache[i]]

\* lines 284-290: updateContact logs 'Contact has not been saved
\* internally!' and leaves self.contacts as it is
CacheAfterUpdate(cache, result) == cache

\* getContacts up to its first list request
GetContacts(refetchData, syncToken) ==
  /\ pc = "idle"
  /\ apiRequests < MaxRequests
  /\ requests' = <<>>
  /\ pages' = <<>>
  /\ handed' = <<>>
  /\ fetched' = <<>>
  /\ walk' = 1
  /\ IF UseCache(dataAlreadyFetched, refetchData)
       THEN /\ pc' = "idle"
            /\ parameters' = NoParameters
            /\ lastOp' = Outcome("getContacts", "value", "", contacts, "", 0)
       ELSE /\ pc' = "fetch"
            /\ parameters' = [syncToken |-> syncToken, pageToken |-> NoToken]
            /\ lastOp' = Outcome("getContacts", "running", "", <<>>, "", 0)
  /\ UNCHANGED << adapterVars, apiRequests, filterVars >>

\* a mutation of Raise: the fetched flag is set on the way out (as a
\* `finally` would)
RaiseSettingFlag(err) ==
  /\ pc' = "idle"
  /\ parameters' = NoParameters
  /\ fetched' = <<>>
  /\ dataAlreadyFetched' = TRUE
  /\ lastOp' = Outcome("getContacts", "raised", err, <<>>, "", 1)
  /\ UNCHANGED << walk, pages, handed, apiRequests, labelFilter, database,
                  storedSyncToken, labelMapping, reverseLabelMapping,
                  contacts, createdContacts >>

\* the caller gets an exception: the locals of the call are gone
Raise(err) ==
  /\ pc' = "idle"
  /\ parameters' = NoParameters
  /\ fetched' = <<>>
  /\ lastOp' = Outcome("getContacts", "raised", err, <<>>, "", 1)
  /\ UNCHANGED << walk, pages, handed, apiRequests, adapterVars >>

\* one turn of the loop of __fetchContacts: a list request and what
\* getContacts does with its answer
FetchPage(response) ==
  /\ pc = "fetch"
  /\ response.nextPageToken # NoToken => Len(pages) + 1 < MaxPages
  /\ requests' = Append(requests, Request(walk, parameters))
  /\ UNCHANGED filterVars
  /\ CASE response.kind = "page" /\ response.nextPageToken # NoToken ->
            /\ apiRequests' = apiRequests + 1
            /\ fetched' = Accumulate(fetched, response)
            /\ parameters' = WithPageToken(parameters, response.nextPageToken)
            /\ pages' = Append(pages, response)
            /\ lastOp' = Outcome("getContacts", "running", "", <<>>, "", 1)
            /\ UNCHANGED << pc, walk, handed, adapterVars >>
       [] response.kind = "page" /\ response.nextPageToken = NoToken ->
            /\ apiRequests' = apiRequests + 1
            /\ pages' = Append(pages, response)
            /\ contacts' = filterContactsByLabel(Accumulate(fetched, response), labelFilter)
            /\ handed' = TokensHanded(response, database)
            /\ storedSyncToken' =
                 IF handed' # <<>> THEN handed'[Len(handed')] ELSE storedSyncToken
            /\ dataAlreadyFetched' = TRUE
            /\ pc' = "idle"
            /\ parameters' = NoParameters
            /\ fetched' = <<>>
            /\ lastOp' = Outcome("getContacts", "value", "", contacts', "", 1)
            /\ UNCHANGED << walk, labelFilter, database, labelMapping,
                            reverseLabelMapping, createdContacts >>
       [] response.kind # "page" /\ Recovers(walk, response.kind) ->
            \* pop raises KeyError when the caller passed no syncToken
            IF parameters.syncToken = NoToken
              THEN Raise("KeyError")
              ELSE /\ walk' = walk + 1
                   /\ parameters' = PopSyncToken(parameters)
                   /\ fetched' = <<>>
                   /\ pages' = <<>>
                   /\ lastOp' = Outcome("getContacts", "running", "", <<>>, "", 1)
                   /\ UNCHANGED << pc, handed, apiRequests, adapterVars >>
       [] response.kind # "page" /\ ~Recovers(walk, response.kind) ->
            \* line 164 wraps the reason in an Exception; an error of the
            \* restarted walk leaves the handler as it is
            IF walk = 1 THEN Raise("Exception") ELSE Raise("HttpError")

\* getContact: the cached record with that resourceName, else one remote get
GetContact(id, response) ==
  /\ pc = "idle"
  /\ apiRequests < MaxRequests
  /\ response.result.resourceName = id
  /\ LET googleContactList == CacheLookup(contacts, id)
     IN  IF googleContactList # <<>>
           THEN /\ lastOp' = Outcome("getContact", "value", "", <<googleContactList[1]>>, id, 0)
                /\ UNCHANGED << contacts, apiRequests >>
           ELSE IF ~response.ok
             THEN /\ lastOp' = Outcome("getContact", "raised", "FailedToFetch", <<>>, id, 1)
                  /\ UNCHANGED << contacts, apiRequests >>
             ELSE LET passed == FilterResult(response.result, labelFilter)
                  IN  /\ apiRequests' = apiRequests + 1
                      /\ IF passed = <<>>
                           THEN /\ lastOp' = Outcome("getContact", "raised",
                                                     "NotAllowedByLabelFilter", <<>>, id, 1)
                                /\ UNCHANGED contacts
                           ELSE /\ Len(contacts) < MaxCache
                                /\ contacts' = CacheAppend(contacts, passed[1])
                                /\ lastOp' = Outcome("getContact", "value", "",
                                                     <<passed[1]>>, id, 1)
  /\ UNCHANGED << labelFilter, database, storedSyncToken, labelMapping,
                  reverseLabelMapping, dataAlreadyFetched, createdContacts,
                  filterVars >>
  /\ NoCall

\* createContact: one create call; a failure is logged and None returned
CreateContact(response) ==
  /\ pc = "idle"
  /\ apiRequests < MaxRequests
  /\ IF ~response.ok
       THEN /\ lastOp' = Outcome("createContact", "none", "", <<>>, "", 1)
            /\ UNCHANGED << contacts, createdContacts, apiRequests >>
       ELSE /\ Len(contacts) < MaxCache
            /\ apiRequests' = apiRequests + 1
            /\ createdContacts' = MarkCreated(createdContacts, response.result)
            /\ contacts' = CacheAppend(contacts, response.result)
            /\ lastOp' = Outcome("createContact", "value", "", <<response.result>>,
                                 response.result.resourceName, 1)
  /\ UNCHANGED << labelFilter, database, storedSyncToken, labelMapping,
                  reverseLabelMapping, dataAlreadyFetched, filterVars >>
  /\ NoCall

\* updateContact: one update call for data['resourceName']; the result is
\* returned and not saved
UpdateContact(data, response) ==
  /\ pc = "idle"
  /\ apiRequests < MaxRequests
  /\ response.result.resourceName = data.resourceName
  /\ IF ~response.ok
       THEN /\ lastOp' = Outcome("updateContact", "none", "", <<>>, data.resourceName, 1)
            /\ UNCHANGED << apiRequests, contacts >>
       ELSE /\ apiRequests' = apiRequests + 1
            /\ contacts' = CacheAfterUpdate(contacts, response.result)
            /\ lastOp' = Outcome("updateContact", "value", "", <<response.result>>,
                                 data.resourceName, 1)
  /\ UNCHANGED << labelFilter, database, storedSyncToken, labelMapping,
                  reverseLabelMapping, dataAlreadyFetched, createdContacts,
                  filterVars >>
  /\ NoCall

\* removeContactFromList: list.remove, a ValueError when it is not there
RemoveContactFromList(googleContact) ==
  /\ pc = "idle"
  /\ IF googleContact \in Range(contacts)
       THEN /\ contacts' = RemoveFirst(contacts, googleContact)
            /\ lastOp' = Outcome("removeContactFromList", "none", "", <<>>,
                                 googleContact.resourceName, 0)
       ELSE /\ lastOp' = Outcome("removeContactFromList", "raised", "ValueError", <<>>,
                                 googleContact.resourceName, 0)
            /\ UNCHANGED contacts
  /\ UNCHANGED << labelFilter, database, storedSyncToken, labelMapping,
                  reverseLabelMapping, dataAlreadyFetched, createdContacts,
                  apiRequests, filterVars >>
  /\ NoCall

Init ==
  /\ Constructed(Filters, {<<>>}, BOOLEAN)
  /\ contactList = <<>>
  /\ formInput = NoArguments

Next ==
  \/ \E refetchData \in BOOLEAN, syncToken \in CallerSyncTokens :
        GetContacts(refetchData, syncToken)
  \/ \E response \in ListResponses : FetchPage(response)
  \/ \E id \in Ids, response \in ContactResponses : GetContact(id, response)
  \/ \E response \in ContactResponses : CreateContact(response)
  \/ \E data \in People, response \in ContactResponses : UpdateContact(data, response)
  \/ \E googleContact \in People : RemoveContactFromList(googleContact)

Spec == Init /\ [][Next]_vars

----------------------------------------------------------------------------
(* Claims about getContacts *)

\* a getContacts call has just returned after a walk's last page
WalkCompleted ==
  /\ pc = "idle"
  /\ lastOp.op = "getContacts"
  /\ lastOp.status = "value"
  /\ lastOp.calls = 1

\* the requests of the current walk
WalkRequests == SelectSeq(requests, LAMBDA r : r.walk = walk)

\* one request per page received, each after the first carrying the
\* nextPageToken of the page before; at the end the cache is the filtered
\* concatenation of the pages
C2_WalkResult ==
  /\ (pc = "fetch" \/ WalkCompleted) =>
       /\ Len(WalkRequests) = Len(pages)
       /\ \A i \in 2..Len(pages) :
             WalkRequests[i].pageToken = pages[i - 1].nextPageToken
       /\ \A i \in 1..(Len(pages) - 1) : pages[i].nextPageToken # NoToken
  /\ WalkCompleted =>
       /\ pages[Len(pages)].nextPageToken = NoToken
       /\ contacts = filterContactsByLabel(Concat(pages), labelFilter)

\* a step of getContacts other than the receipt of a walk's last page
\* leaves the cache alone
C2_CacheUntouched ==
  (lastOp'.op = "getContacts" /\ ~(pc = "fetch" /\ lastOp'.status = "value"))
    => contacts' = contacts

\* C2: a successful walk issues one list request per page, each request
\* after the first carrying the previous page's nextPageToken; when it ends
\* the cache is the label filter applied to the concatenation of all pages
\* in page order, and the cache is not modified before the last page has
\* been received.
C2_PaginationWalk == []C2_WalkResult /\ [][C2_CacheUntouched]_vars

\* a walk of two non-empty pages ended, and the filter dropped a contact
C2_Witness ==
  /\ WalkCompleted
  /\ Len(pages) >= 2
  /\ \A i \in DOMAIN pages : pages[i].connections # <<>>
  /\ contacts # <<>>
  /\ Len(contacts) < Len(Concat(pages))

\* the first list request carried a syncToken and failed with a 'Sync
\* token' error: getContacts goes on with a second walk
C3_Restarts ==
  \A response \in ListResponses :
    ( /\ requests = <<>>
      /\ parameters.syncToken # NoToken
      /\ response.kind = "syncTokenError"
      /\ FetchPage(response) )
    => /\ pc' = "fetch"
       /\ walk' = 2
       /\ lastOp'.status = "running"
       /\ contacts' = contacts

\* the second walk received its last page: getContacts returns the cache
\* and sets the flag
C3_Returns ==
  \A response \in ListResponses :
    ( /\ walk = 2
      /\ response.kind = "page"
      /\ response.nextPageToken = NoToken
      /\ FetchPage(response) )
    => /\ pc' = "idle"
       /\ lastOp'.status = "value"
       /\ lastOp'.ret = contacts'
       /\ dataAlreadyFetched'

\* no request of a second walk carries a syncToken
C3_NoTokenInRestart ==
  \A i \in DOMAIN requests : requests[i].walk = 2 => requests[i].syncToken = NoToken

\* C3: when getContacts is called with a syncToken and the first page
\* request fails with a 'Sync token' error, a second walk is performed whose
\* requests carry no syncToken, and if it succeeds getContacts returns the
\* resulting cache without raising and marks the data as fetched.
C3_SyncTokenRecovery ==
  []C3_NoTokenInRestart /\ [][C3_Restarts /\ C3_Returns]_vars

\* the first request carried a syncToken and failed, the restart succeeded
C3_Witness ==
  /\ WalkCompleted
  /\ walk = 2
  /\ Len(requests) >= 2
  /\ requests[1].walk = 1 /\ requests[1].syncToken # NoToken
  /\ requests[2].walk = 2
  /\ dataAlreadyFetched
  /\ lastOp.ret = contacts
  /\ contacts # <<>>

\* C4: whenever a list request of the first walk fails with a 'Sync token'
\* error, on whichever page, the first request of the restarted walk carries
\* neither the sync token nor a page token of the failed walk, and the
\* contacts the failed walk accumulated are not part of the result.
C4_RestartFromScratch ==
  /\ \A i \in DOMAIN requests :
       (requests[i].walk = 2 /\ (i = 1 \/ requests[i - 1].walk = 1)) =>
          /\ requests[i].syncToken = NoToken
          /\ requests[i].pageToken = NoToken
  /\ (WalkCompleted /\ walk = 2) =>
       contacts = filterContactsByLabel(Concat(pages), labelFilter)

\* what getContacts does with an HttpError of a list request
C5_Failures ==
  \A response \in ListResponses :
    (FetchPage(response) /\ response.kind # "page") =>
       /\ walk' # walk => (walk = 1 /\ walk' = 2 /\ response.kind = "syncTokenError")
       /\ walk = 2 =>
            (pc' = "idle" /\ lastOp'.status = "raised" /\ lastOp'.err = "HttpError")
       /\ (walk = 1 /\ response.kind = "httpError") =>
            (pc' = "idle" /\ lastOp'.status = "raised" /\ lastOp'.err = "Exception")

\* the requests of a call are those of a first walk, then those of at most
\* one restart
C5_TwoWalks ==
  /\ walk \in {1, 2}
  /\ \A i \in DOMAIN requests : requests[i].walk \in {1, 2}
  /\ \A i, j \in DOMAIN requests : i < j => requests[i].walk <= requests[j].walk

\* C5: one getContacts call performs at most two walks; a failure of the
\* restarted walk, of any kind, is raised to the caller and starts no third
\* walk; a failure of the first walk other than 'Sync token' is raised to
\* the caller without a retry.
C5_AtMostOneRetry == []C5_TwoWalks /\ [][C5_Failures]_vars

\* a restarted walk failed and the caller got the error
C5_Witness ==
  /\ pc = "idle"
  /\ lastOp.op = "getContacts"
  /\ lastOp.status = "raised"
  /\ lastOp.err = "HttpError"
  /\ walk = 2
  /\ requests[Len(requests)].walk = 2
  /\ requests[1].walk = 1

\* C6 as stated: getContacts returns the cache without a remote request
\* exactly when the cache is non-empty and refetchData is false, and walks
\* otherwise.
C6_CacheNonEmptyDecides ==
  [][ \A refetchData \in BOOLEAN, syncToken \in CallerSyncTokens :
        GetContacts(refetchData, syncToken) =>
          ((pc' = "idle" /\ lastOp'.status = "value")
             <=> (contacts # <<>> /\ ~refetchData)) ]_vars

\* C6, amended: getContacts returns the cache without a remote request
\* exactly when dataAlreadyFetched is set (an earlier getContacts walk of
\* this adapter ended successfully) and refetchData is false, whether the
\* cache is empty or not; otherwise it starts a paginated walk.
C6_FetchedFlagDecides ==
  [][ \A refetchData \in BOOLEAN, syncToken \in CallerSyncTokens :
        GetContacts(refetchData, syncToken) =>
          IF dataAlreadyFetched /\ ~refetchData
            THEN /\ pc' = "idle"
                 /\ lastOp'.status = "value"
                 /\ lastOp'.ret = contacts
                 /\ lastOp'.calls = 0
                 /\ apiRequests' = apiRequests
                 /\ contacts' = contacts
            ELSE /\ pc' = "fetch"
                 /\ lastOp'.status = "running"
                 /\ requests' = <<>> ]_vars

\* getContacts returned an empty cache without a remote request
C6_Witness ==
  /\ lastOp.op = "getContacts"
  /\ lastOp.status = "value"
  /\ lastOp.calls = 0
  /\ pc = "idle"
  /\ contacts = <<>>
  /\ dataAlreadyFetched

----------------------------------------------------------------------------
(* Claims about createContact, updateContact and getContact *)

\* C8: when the remote call fails, createContact and updateContact return
\* None without raising and leave the cache and createdContacts unchanged;
\* when createContact succeeds the returned record is appended to the cache
\* and its id is in createdContacts.
C8_SoftFailure ==
  [][ \A response \in ContactResponses :
        /\ CreateContact(response) =>
             IF ~response.ok
               THEN /\ lastOp'.status = "none"
                    /\ contacts' = contacts
                    /\ createdContacts' = createdContacts
               ELSE /\ lastOp'.status = "value"
                    /\ lastOp'.ret = <<response.result>>
                    /\ contacts' = Append(contacts, response.result)
                    /\ response.result.resourceName \in createdContacts'
        /\ \A data \in People :
             (UpdateContact(data, response) /\ ~response.ok) =>
                /\ lastOp'.status = "none"
                /\ contacts' = contacts
                /\ createdContacts' = createdContacts ]_vars

\* a createContact failed after another one had succeeded
C8_Witness ==
  /\ lastOp.op = "createContact"
  /\ lastOp.status = "none"
  /\ contacts # <<>>
  /\ createdContacts # {}

C10_GetContactUncached ==
  [][ \A id \in Ids, response \in ContactResponses :
        ( /\ GetContact(id, response)
          /\ \A i \in DOMAIN contacts : contacts[i].resourceName # id )
        => /\ lastOp'.calls = 1
           /\ IF ~response.ok
                THEN /\ lastOp'.status = "raised"
                     /\ lastOp'.err = "FailedToFetch"
                     /\ contacts' = contacts
                ELSE IF Passes(response.result, labelFilter)
                  THEN /\ lastOp'.status = "value"
                       /\ lastOp'.ret = <<response.result>>
                       /\ contacts' = Append(contacts, response.result)
                  ELSE /\ lastOp'.status = "raised"
                       /\ lastOp'.err = "NotAllowedByLabelFilter"
                       /\ contacts' = contacts ]_vars

\* a getContact on an uncached id was refused by the label filter while the
\* cache held another contact
C10_Witness ==
  /\ lastOp.op = "getContact"
  /\ lastOp.status = "raised"
  /\ lastOp.err = "NotAllowedByLabelFilter"
  /\ lastOp.calls = 1
  /\ contacts # <<>>

----------------------------------------------------------------------------
(* Claims about the request counter and the cache as a whole *)

\* C11: every remote call issued, whether it succeeds or fails, increases
\* apiRequests by exactly one, and nothing else changes it: each step
\* raises the counter by the number of remote calls the step issued.
C11_CounterCountsCalls ==
  [][apiRequests' = apiRequests + lastOp'.calls]_vars

\* the step is the receipt of a walk's last page by getContacts
LastPageReceived ==
  /\ pc = "fetch"
  /\ pc' = "idle"
  /\ lastOp'.op = "getContacts"
  /\ lastOp'.status = "value"

\* C16 as stated: a contact appended to the cache by createContact stays
\* in the cache through every step that is not a removeContactFromList,
\* the end of a getContacts walk included.
C16_CreatedStaysCached ==
  [][ \A c \in Range(contacts) :
        (c.resourceName \in createdContacts /\ lastOp'.op # "removeContactFromList")
          => c \in Range(contacts') ]_vars

\* C16, amended: a contact appended to the cache by createContact stays in
\* the cache until the caller removes it with removeContactFromList or a
\* getContacts walk receives its last page, which replaces the whole cache
\* by the filtered result of the walk; no other step (getContact,
\* createContact, updateContact, a getContacts answered from the cache, a
\* walk that has not ended or that failed) drops it.
C16_CreatedStaysUntilRefetch ==
  [][ \A c \in Range(contacts) :
        ( /\ c.resourceName \in createdContacts
          /\ lastOp'.op # "removeContactFromList"
          /\ ~LastPageReceived )
          => c \in Range(contacts') ]_vars

\* a created contact is still first in the cache after getContact fetched
\* another record and appended it behind
C16_Witness ==
  /\ Len(contacts) >= 2
  /\ contacts[1].resourceName \in createdContacts
  /\ lastOp.op = "getContact"
  /\ lastOp.status = "value"
  /\ lastOp.calls = 1

\* C17: every contact held in the cache passes the configured label
\* filter.
C17_CacheIsFiltered ==
  \A i \in DOMAIN contacts : Passes(contacts[i], labelFilter)

\* C18: when getContacts fails to the caller the cache and the fetched
\* flag are as they were before the call: no step of a getContacts call
\* that has not returned a value changes either, so pages received before
\* the failure never show in the cache, and a getContacts call with the
\* flag still false starts a walk again.
C18_FailureLeavesCache ==
  [][ /\ (lastOp'.op = "getContacts" /\ lastOp'.status \in {"running", "raised"}) =>
           /\ contacts' = contacts
           /\ dataAlreadyFetched' = dataAlreadyFetched
      /\ lastOp'.status = "raised" => pc' = "idle"
      /\ \A refetchData \in BOOLEAN, syncToken \in CallerSyncTokens :
           (GetContacts(refetchData, syncToken) /\ ~dataAlreadyFetched) =>
              pc' = "fetch" ]_vars

\* a first getContacts call failed after a non-empty page had been
\* received, with a contact in the cache
C18_Witness ==
  /\ pc = "idle"
  /\ lastOp.op = "getContacts"
  /\ lastOp.status = "raised"
  /\ ~dataAlreadyFetched
  /\ contacts # <<>>
  /\ pages # <<>>
  /\ pages[1].connections # <<>>
  /\ Range(pages[1].connections) \cap Range(contacts) = {}

----------------------------------------------------------------------------
(* Claims about the sync token handover *)

\* what a getContacts call has handed to the database so far
C13_Handed ==
  /\ Len(handed) <= 1
  /\ pc = "fetch" => handed = <<>>
  /\ (lastOp.op = "getContacts" /\ lastOp.status = "raised") => handed = <<>>
  /\ (lastOp.op = "getContacts" /\ lastOp.status = "value" /\ lastOp.calls = 0) =>
       handed = <<>>
  /\ WalkCompleted =>
       LET last == pages[Len(pages)]
       IN  /\ last.nextPageToken = NoToken
           /\ contacts = filterContactsByLabel(Concat(pages), labelFilter)
           /\ handed = IF last.nextSyncToken # NoToken /\ database
                         THEN <<last.nextSyncToken>> ELSE <<>>
           /\ handed # <<>> => storedSyncToken = handed[1]

\* the stored token changes only in the step that receives a walk's last
\* page, to the token handed over in that step
C13_StoredOnlyAtEnd ==
  storedSyncToken' # storedSyncToken =>
    /\ LastPageReceived
    /\ database
    /\ handed' # <<>>
    /\ storedSyncToken' = handed'[1]

\* C13: the sync token is handed to the database only after a walk has
\* ended successfully (last page received, cache replaced), only if that
\* last page carried a non-empty nextSyncToken and a database is
\* configured, and at most once per walk; a walk that fails hands over no
\* token, so after a failed first walk and a successful restart exactly the
\* restart's token is stored.
C13_TokenHandover == []C13_Handed /\ [][C13_StoredOnlyAtEnd]_vars

\* the first walk received a page and then failed, the restart ended and
\* its token is the stored one
C13_Witness ==
  /\ WalkCompleted
  /\ walk = 2
  /\ Len(requests) >= 3
  /\ requests[2].walk = 1
  /\ database
  /\ handed = <<"s2">>
  /\ storedSyncToken = "s2"

----------------------------------------------------------------------------
(* Claims about the label mapping *)

\* C12: the label mapping is two-way after any sequence of createLabel /
\* getLabelId operations: while no two names share an id, getLabelName of
\* the id of every mapped name, the labels created in this run included,
\* returns that name.
C12_TwoWayMapping ==
  (\A n1, n2 \in DOMAIN labelMapping :
      labelMapping[n1] = labelMapping[n2] => n1 = n2)
  => \A n \in DOMAIN labelMapping :
        getLabelName(reverseLabelMapping, labelMapping[n]) = n

----------------------------------------------------------------------------
(* SpecForm: the payload builder GoogleContactUploadForm *)

\* JSON values that may be null: None is <<>>, a value v is <<v>>
None == <<>>

Some(v) == <<v>>

\* truthiness of a list or a dict
Truthy(x) == DOMAIN x # {}

NameParts == {"", "Ada"}

Birthdates ==
  { EmptyDict, [year |-> 1990, month |-> 5, day |-> 1], [month |-> 5, day |-> 1] }

Careers ==
  { EmptyDict, [company |-> "ACME", job |-> "Engineer"], [job |-> "Engineer"] }

PhoneLists == { <<>>, <<"+1">>, <<"+1", "+2">> }

EmailLists == { <<>>, <<"ada@example.org">> }

LabelIdLists == { <<>>, <<"contactGroups/a">> }

\* addresses: with a country object, with a country object that lacks iso,
\* with country None, with an empty country object, and without the key
AddressFull ==
  [name |-> "home", street |-> "Main St 1", city |-> "Berlin", province |-> "BE",
   postal_code |-> "10115", country |-> Some([name |-> "Germany", iso |-> "DE"])]

AddressNoIso == [name |-> "work", country |-> Some([name |-> "France"])]

AddressNullCountry == [name |-> "home", city |-> "Berlin", country |-> None]

AddressEmptyCountry == [street |-> "Main St 1", country |-> Some(EmptyDict)]

AddressNoCountryKey == [name |-> "home", city |-> "Berlin"]

AddressLists ==
  { <<>>, <<AddressFull>>, <<AddressNoIso>>, <<AddressNullCountry>>,
    <<AddressEmptyCountry>>, <<AddressNoCountryKey>>,
    <<AddressFull, AddressNullCountry>> }

FormInputs ==
  [firstName : NameParts, lastName : NameParts, middleName : NameParts,
   birthdate : Birthdates, phoneNumbers : PhoneLists, career : Careers,
   emailAdresses : EmailLists, labelIds : LabelIdLists, addresses : AddressLists]

\* a mutation of FormKeys: every group is written, empty or not
FormKeysAlways(in) ==
  {"names", "birthdays", "organizations", "addresses", "phoneNumbers",
   "emailAddresses", "memberships"}

\* lines 301, 311, 322, 330, 344, 353, 362: the keys self.data gets
FormKeys(in) ==
  {"names"}
  \cup (IF Truthy(in.birthdate) THEN {"birthdays"} ELSE {})
  \cup (IF Truthy(in.career) THEN {"organizations"} ELSE {})
  \cup (IF Truthy(in.addresses) THEN {"addresses"} ELSE {})
  \cup (IF Truthy(in.phoneNumbers) THEN {"phoneNumbers"} ELSE {})
  \cup (IF Truthy(in.emailAdresses) THEN {"emailAddresses"} ELSE {})
  \cup (IF Truthy(in.labelIds) THEN {"memberships"} ELSE {})

\* a mutation of CountryField: both fields read the country's name
CountryFieldName(address, key) ==
  IF address.country # None /\ Truthy(address.country[1])
    THEN (IF "name" \in DOMAIN address.country[1]
            THEN Some(address.country[1]["name"]) ELSE None)
    ELSE None

\* lines 338-339: address["country"].get(key, None) if address["country"]
\* else None, for an address that has the country key
CountryField(address, key) ==
  IF address.country # None /\ Truthy(address.country[1])
    THEN (IF key \in DOMAIN address.country[1]
            THEN Some(address.country[1][key]) ELSE None)
    ELSE None

\* lines 332-340: one entry of self.data["addresses"]
FormAddress(address) ==
  [type |-> Get(address, "name", ""),
   streetAddress |-> Get(address, "street", ""),
   city |-> Get(address, "city", ""),
   region |-> Get(address, "province", ""),
   postalCode |-> Get(address, "postal_code", ""),
   country |-> CountryField(address, "name"),
   countryCode |-> CountryField(address, "iso")]

\* GoogleContactUploadForm.__init__: address["country"] raises KeyError for
\* an address without the key; else self.data
GoogleContactUploadForm(in) ==
  IF \E i \in DOMAIN in.addresses : "country" \notin DOMAIN in.addresses[i]
    THEN [status |-> "raised", err |-> "KeyError", data |-> EmptyDict]
    ELSE [status |-> "value", err |-> "",
          data |->
            [k \in FormKeys(in) |->
               CASE k = "names" ->
                      << [familyName |-> in.lastName, givenName |-> in.firstName,
                          middleName |-> in.middleName] >>
                 [] k = "birthdays" ->
                      << [date |-> [year |-> Get(in.birthdate, "year", 0),
                                    month |-> Get(in.birthdate, "month", 0),
                                    day |-> Get(in.birthdate, "day", 0)]] >>
                 [] k = "organizations" ->
                      << [name |-> Get(in.career, "company", ""),
                          title |-> Get(in.career, "job", "")] >>
                 [] k = "addresses" ->
                      [i \in DOMAIN in.addresses |-> FormAddress(in.addresses[i])]
                 [] k = "phoneNumbers" ->
                      [i \in DOMAIN in.phoneNumbers |->
                         [value |-> in.phoneNumbers[i], type |-> "other"]]
                 [] k = "emailAddresses" ->
                      [i \in DOMAIN in.emailAdresses |->
                         [value |-> in.emailAdresses[i], type |-> "other"]]
                 [] k = "memberships" ->
                      [i \in DOMAIN in.labelIds |->
                         [contactGroupMembership |->
                            [contactGroupResourceName |-> in.labelIds[i]]]]]]

InitForm ==
  /\ Constructed({[include |-> {}, exclude |-> {}]}, {<<>>}, {FALSE})
  /\ contactList = <<>>
  /\ formInput \in FormInputs

BuildForm ==
  /\ lastOp.op = "init"
  /\ formData' = GoogleContactUploadForm(formInput)
  /\ lastOp' = Outcome("GoogleContactUploadForm", formData'.status, formData'.err,
                       <<>>, "", 0)
  /\ UNCHANGED << adapterVars, apiRequests, callVars, contactList, filtered, formInput >>

NextForm == BuildForm

SpecForm == InitForm /\ [][NextForm]_vars

Built == lastOp.op = "GoogleContactUploadForm"

\* C14: the mapping the payload builder produces always has the names group
\* with the given family, given and middle name, and has each optional
\* group exactly when the corresponding input is non-empty; with no
\* optional input it has the names group alone.
C14_GroupsIffNonEmpty ==
  (Built /\ formData.status = "value") =>
         LET data == formData.data
         IN  /\ "names" \in DOMAIN data
             /\ data["names"] = << [familyName |-> formInput.lastName,
                                    givenName |-> formInput.firstName,
                                    middleName |-> formInput.middleName] >>
             /\ "birthdays" \in DOMAIN data <=> formInput.birthdate # EmptyDict
             /\ "organizations" \in DOMAIN data <=> formInput.career # EmptyDict
             /\ "addresses" \in DOMAIN data <=> formInput.addresses # <<>>
             /\ "phoneNumbers" \in DOMAIN data <=> formInput.phoneNumbers # <<>>
             /\ "emailAddresses" \in DOMAIN data <=> formInput.emailAdresses # <<>>
             /\ "memberships" \in DOMAIN data <=> formInput.labelIds # <<>>
             /\ DOMAIN data \subseteq
                  {"names", "birthdays", "organizations", "addresses",
                   "phoneNumbers", "emailAddresses", "memberships"}
             /\ ( /\ formInput.birthdate = EmptyDict
                  /\ formInput.career = EmptyDict
                  /\ formInput.addresses = <<>>
                  /\ formInput.phoneNumbers = <<>>
                  /\ formInput.emailAdresses = <<>>
                  /\ formInput.labelIds = <<>> ) => DOMAIN data = {"names"}

\* a mapping with empty name parts and some, not all, optional groups
C14_Witness ==
  /\ Built
  /\ formData.status = "value"
  /\ formInput.firstName = "" /\ formInput.lastName = "" /\ formInput.middleName = ""
  /\ DOMAIN formData.data = {"names", "birthdays", "phoneNumbers"}

\* what an address written from a country entry holds under the given key:
\* null for a null or empty entry and for a sub-field the object lacks
Expected(entry, key) ==
  IF entry = None THEN None
  ELSE IF key \in DOMAIN entry[1] THEN Some(entry[1][key]) ELSE None

\* C15 as stated: for one address with no country entry, be it an absent
\* key or a null value, the builder completes and the produced country and
\* countryCode are null; for an address with a country object they are that
\* object's name and iso.
C15_NoCountryGivesNull ==
  (Built /\ Len(formInput.addresses) = 1) =>
    LET address == formInput.addresses[1]
        entry == IF "country" \in DOMAIN address THEN address.country ELSE None
    IN  /\ formData.status = "value"
        /\ formData.data["addresses"][1].country = Expected(entry, "name")
        /\ formData.data["addresses"][1].countryCode = Expected(entry, "iso")

\* C15: the builder raises KeyError exactly when some address lacks the
\* country key; otherwise every produced address has country and
\* countryCode null when its country entry is null or empty, and the
\* entry's name and iso (null for a missing one) when it is an object.
C15_CountryFields ==
  Built =>
    /\ formData.status = "raised" <=>
         \E i \in DOMAIN formInput.addresses :
            "country" \notin DOMAIN formInput.addresses[i]
    /\ formData.status = "raised" => formData.err = "KeyError"
    /\ formData.status \in {"raised", "value"}
    /\ (formData.status = "value" /\ formInput.addresses # <<>>) =>
         /\ Len(formData.data["addresses"]) = Len(formInput.addresses)
         /\ \A i \in DOMAIN formInput.addresses :
              /\ formData.data["addresses"][i].country =
                   Expected(formInput.addresses[i].country, "name")
              /\ formData.data["addresses"][i].countryCode =
                   Expected(formInput.addresses[i].country, "iso")

\* two addresses built: one with a country object, one with a null country
C15_Witness ==
  /\ Built
  /\ formData.status = "value"
  /\ formInput.addresses = <<AddressFull, AddressNullCountry>>
  /\ formData.data["addresses"][1].country = Some("Germany")
  /\ formData.data["addresses"][1].countryCode = Some("DE")
  /\ formData.data["addresses"][2].country = None
  /\ formData.data["addresses"][2].countryCode = None

====
